---- MODULE Spec2Model ----
(***************************************************************************)
(* A model of heat's AWS::EC2::Instance resource (engine/resources/        *)
(* instance.py) and of the v1 ReST API request helpers                     *)
(* (api/openstack/v1/stacks.py).                                           *)
(*                                                                         *)
(* The Instance handlers run in one eventlet green thread.  Every nova     *)
(* client call and every eventlet.sleep is one step of the model; the      *)
(* thread can be killed only while it is suspended in a sleep.  The        *)
(* provider (nova) is a second process that moves servers out of BUILD     *)
(* and removes servers.                                                    *)
(***************************************************************************)
EXTENDS Integers, Sequences, FiniteSets, TLC

\* ---------------------------------------------------------------- bounds
\* number of servers nova can hand out in one behaviour
MaxServers == 2

\* ------------------------------------------------------------- constants
\* resource_id is None
NoId == 0

ServerIds == 1..MaxServers

\* the value of an absent dictionary key / an unassigned attribute
None == "None"

\* names registered with the provider
KeyPairs == {"heat_key"}
Images == {"F17-x86_64"}
Flavors == {"m1.small"}

\* the property values a template can carry
KeyNames == {"heat_key", "lost_key", None}
ImageIds == {"F17-x86_64", "no_image", None}
InstanceTypes == {"m1.small", "no_flavor", None}

\* server.networks as nova reports it: the first address of each network,
\* in the order the dictionary is iterated
NetworkChoices == {<<>>, <<"10.0.0.2">>, <<"10.0.0.2", "172.16.0.2">>}

\* the `server` local before servers.create / servers.get has returned
NoServer == [id |-> NoId, status |-> None, networks |-> <<>>]

\* the provider calls one handler invocation has made so far
NoCalls == [create |-> 0, delete |-> 0, target |-> NoId, lookup |-> NoId,
            keypairs |-> 0, absent |-> FALSE]

\* how the previous invocation ended (op, outcome, the server it held) and
\* the resource_id the current one was entered with
NoPrev == [op |-> "none", outcome |-> "none", sid |-> NoId, rid |-> NoId]

\* no FnGetAtt has been called since the last handler was entered
NoAtt == [key |-> None, value |-> None, raised |-> None, queried |-> FALSE,
          absent |-> FALSE, cached |-> None]

VARIABLES
    properties,   \* self.properties: KeyName, ImageId, InstanceType
    resource_id,  \* self.resource_id
    ipaddress,    \* self.ipaddress
    metadata,     \* self.metadata
    pc,           \* where the green thread is inside the running handler
    server,       \* the handler's local `server` (a cached novaclient Server)
    exc,          \* exception pending while a finally clause runs
    nova,         \* the provider: server id -> [status, networks]
    op,           \* the handler running or last run
    outcome,      \* "running", "ok", or the exception that ended the handler
    errStatus,    \* the status named by exception.Error
    calls,        \* provider calls made by the current invocation
    prev,         \* how the previous invocation ended, how this one began
    valres,       \* what validate() returned
    att,          \* the last FnGetAtt since the last handler: key and result
    t,            \* self.t: the resource's current definition
    upd,          \* the last handle_update: its input, its diff, its result
    data,         \* InstantiationData.data: the body of the request
    api,          \* the last InstantiationData call and what it gave
    fmt           \* the last format_resource call: its arguments, its result

vars == <<properties, resource_id, ipaddress, metadata, pc, server, exc, nova,
          op, outcome, errStatus, calls, prev, valres, att, t, upd, data,
          api, fmt>>

\* what the Instance handlers other than handle_update leave alone
updvars == <<t, upd>>

\* the state of the API layer
apivars == <<data, api, fmt>>

CreatePcs == {"create_call", "create_finally", "create_check", "create_get",
              "create_sleep"}
DeletePcs == {"delete_lookup", "delete_call", "delete_get", "delete_sleep",
              "delete_clear"}

\* ------------------------------------------------------------- provider
Present(i) ==
    /\ i \in ServerIds
    /\ nova[i].status \in {"BUILD", "ACTIVE", "ERROR", "DELETING"}

Allocated == {i \in ServerIds : nova[i].status # "NONE"}

NextId == Cardinality(Allocated) + 1

\* nova finishes (or fails) building server i
nova_build(i) ==
    /\ nova[i].status = "BUILD"
    /\ \/ \E n \in NetworkChoices :
             nova' = [nova EXCEPT ![i] = [status |-> "ACTIVE", networks |-> n]]
       \/ nova' = [nova EXCEPT ![i] = [status |-> "ERROR", networks |-> <<>>]]
    /\ UNCHANGED <<properties, resource_id, ipaddress, metadata, pc, server,
                   exc, op, outcome, errStatus, calls, prev, valres,
                   updvars, apivars, att>>

\* server i disappears from nova: a requested deletion completes, or the
\* server is removed behind heat's back
nova_remove(i) ==
    /\ Present(i)
    /\ nova' = [nova EXCEPT ![i] = [status |-> "GONE", networks |-> <<>>]]
    /\ UNCHANGED <<properties, resource_id, ipaddress, metadata, pc, server,
                   exc, op, outcome, errStatus, calls, prev, valres,
                   updvars, apivars, att>>

\* ------------------------------------------------------------- Instance
\* Resource.resource_id_set(inst)
resource_id_set(inst) == resource_id' = inst

\* Instance._set_ipaddress(networks): record the first address, if any
set_ipaddress(networks) ==
    ipaddress' = IF Len(networks) > 0 THEN Head(networks) ELSE ipaddress

\* a handler is entered from the idle resource
Enter(name) ==
    /\ pc = "idle"
    /\ op' = name
    /\ errStatus' = None
    /\ prev' = [op |-> op, outcome |-> outcome, sid |-> server.id,
                rid |-> resource_id]
    /\ att' = NoAtt

\* a handler returns (how = "ok") or an exception leaves it
Leave(how) ==
    /\ pc' = "idle"
    /\ outcome' = how

\* self.properties[key] raises ValueError for a Required property that is
\* missing
Missing(p, key) == p[key] = None

\* Resource.validate(): the schema validation of the properties
properties_validate(p) ==
    IF \E key \in {"ImageId", "InstanceType", "KeyName"} : Missing(p, key)
       THEN "SchemaError" ELSE None

\* handle_create up to the try block: the keypair, image and flavor lookups
handle_create_precheck ==
    /\ Enter("create")
    /\ resource_id = NoId
    /\ NextId <= MaxServers
    /\ server' = NoServer
    /\ exc' = None
    /\ \/ /\ \/ Missing(properties, "InstanceType")
             \/ Missing(properties, "KeyName")
          /\ Leave("ValueError")
          /\ calls' = NoCalls
       \/ /\ ~Missing(properties, "InstanceType")
          /\ ~Missing(properties, "KeyName")
          /\ calls' = [NoCalls EXCEPT !.keypairs = 1]
          /\ \/ /\ properties.KeyName \notin KeyPairs
                /\ Leave("UserKeyPairMissing")
             \/ /\ properties.KeyName \in KeyPairs
                /\ Missing(properties, "ImageId")
                /\ Leave("ValueError")
             \/ /\ properties.KeyName \in KeyPairs
                /\ ~Missing(properties, "ImageId")
                /\ properties.ImageId \notin Images
                /\ Leave("ImageNotFound")
             \/ /\ properties.KeyName \in KeyPairs
                /\ properties.ImageId \in Images
                /\ pc' = "create_call"
                /\ outcome' = "running"
             \/ Leave("ClientException")
    /\ UNCHANGED <<properties, resource_id, ipaddress, metadata, nova, valres,
                   updvars, apivars>>

\* variant of the try block in which flavor_id starts out as None, so that an
\* unknown flavor is passed on to servers.create
handle_create_call_any_flavor ==
    /\ pc = "create_call"
    /\ \/ /\ exc' = "ClientException"
          /\ calls' = [calls EXCEPT !.create = @ + 1]
          /\ UNCHANGED <<server, nova>>
       \/ /\ \E st \in {"BUILD", "ACTIVE", "ERROR"}, n \in NetworkChoices :
                /\ st # "ACTIVE" => n = <<>>
                /\ nova' = [nova EXCEPT ![NextId] =
                                [status |-> st, networks |-> n]]
                /\ server' = [id |-> NextId, status |-> st, networks |-> n]
          /\ calls' = [calls EXCEPT !.create = @ + 1]
          /\ UNCHANGED exc
    /\ pc' = "create_finally"
    /\ UNCHANGED <<properties, resource_id, ipaddress, metadata, op, outcome,
                   errStatus, prev, valres, updvars, apivars, att>>

\* the try block: self.nova().servers.create(...)
handle_create_call ==
    /\ pc = "create_call"
    /\ \/ \* flavor_id was never bound: the argument list cannot be evaluated
          /\ properties.InstanceType \notin Flavors
          /\ exc' = "UnboundLocalError"
          /\ UNCHANGED <<server, nova, calls>>
       \/ \* the call raises
          /\ properties.InstanceType \in Flavors
          /\ exc' = "ClientException"
          /\ calls' = [calls EXCEPT !.create = @ + 1]
          /\ UNCHANGED <<server, nova>>
       \/ \* the call returns a server
          /\ properties.InstanceType \in Flavors
          /\ \E st \in {"BUILD", "ACTIVE", "ERROR"}, n \in NetworkChoices :
                /\ st # "ACTIVE" => n = <<>>
                /\ nova' = [nova EXCEPT ![NextId] =
                                [status |-> st, networks |-> n]]
                /\ server' = [id |-> NextId, status |-> st, networks |-> n]
          /\ calls' = [calls EXCEPT !.create = @ + 1]
          /\ UNCHANGED exc
    /\ pc' = "create_finally"
    /\ UNCHANGED <<properties, resource_id, ipaddress, metadata, op, outcome,
                   errStatus, prev, valres, updvars, apivars, att>>

\* variant of the finally clause that leaves the id to be stored after the
\* polling loop
handle_create_finally_unstored ==
    /\ pc = "create_finally"
    /\ IF exc # None
          THEN Leave(exc)
          ELSE pc' = "create_check" /\ UNCHANGED outcome
    /\ UNCHANGED <<properties, resource_id, ipaddress, metadata, server, exc,
                   nova, op, errStatus, calls, prev, valres, updvars, apivars, att>>

\* variant of the finally clause that issues servers.create again when the
\* call raised
handle_create_finally_retry ==
    /\ pc = "create_finally"
    /\ IF server # NoServer THEN resource_id_set(server.id)
                            ELSE UNCHANGED resource_id
    /\ IF exc = "ClientException"
          THEN pc' = "create_call" /\ exc' = None /\ UNCHANGED outcome
          ELSE IF exc # None
          THEN Leave(exc) /\ UNCHANGED exc
          ELSE pc' = "create_check" /\ UNCHANGED <<outcome, exc>>
    /\ UNCHANGED <<properties, ipaddress, metadata, server, nova, op,
                   errStatus, calls, prev, valres, updvars, apivars, att>>

\* the finally clause: store the id, then let a pending exception go on
handle_create_finally ==
    /\ pc = "create_finally"
    /\ IF server # NoServer THEN resource_id_set(server.id)
                            ELSE UNCHANGED resource_id
    /\ IF exc # None
          THEN Leave(exc)
          ELSE pc' = "create_check" /\ UNCHANGED outcome
    /\ UNCHANGED <<properties, ipaddress, metadata, server, exc, nova, op,
                   errStatus, calls, prev, valres, updvars, apivars, att>>

\* variant of the status check that drops the id of a server that failed
\* to build
handle_create_check_forget ==
    /\ pc = "create_check"
    /\ CASE server.status = "BUILD" ->
                /\ pc' = "create_get"
                /\ UNCHANGED <<ipaddress, outcome, errStatus, resource_id>>
         [] server.status = "ACTIVE" ->
                /\ set_ipaddress(server.networks)
                /\ Leave("ok")
                /\ UNCHANGED <<errStatus, resource_id>>
         [] OTHER ->
                /\ Leave("Error")
                /\ errStatus' = server.status
                /\ resource_id' = NoId
                /\ UNCHANGED ipaddress
    /\ UNCHANGED <<properties, metadata, server, exc, nova, op, calls, prev,
                   valres, updvars, apivars, att>>

\* variant of the status check that polls until the server is ACTIVE
handle_create_check_until_active ==
    /\ pc = "create_check"
    /\ CASE server.status = "ACTIVE" ->
                /\ set_ipaddress(server.networks)
                /\ Leave("ok")
                /\ UNCHANGED errStatus
         [] OTHER ->
                /\ pc' = "create_get"
                /\ UNCHANGED <<ipaddress, outcome, errStatus>>
    /\ UNCHANGED <<properties, resource_id, metadata, server, exc, nova, op,
                   calls, prev, valres, updvars, apivars, att>>

\* while server.status == 'BUILD' ... if server.status == 'ACTIVE' ... else
handle_create_check ==
    /\ pc = "create_check"
    /\ CASE server.status = "BUILD" ->
                /\ pc' = "create_get"
                /\ UNCHANGED <<ipaddress, outcome, errStatus>>
         [] server.status = "ACTIVE" ->
                /\ set_ipaddress(server.networks)
                /\ Leave("ok")
                /\ UNCHANGED errStatus
         [] OTHER ->
                /\ Leave("Error")
                /\ errStatus' = server.status
                /\ UNCHANGED ipaddress
    /\ UNCHANGED <<properties, resource_id, metadata, server, exc, nova, op,
                   calls, prev, valres, updvars, apivars, att>>

\* server.get() inside the create loop
handle_create_get ==
    /\ pc = "create_get"
    /\ \/ /\ Present(server.id)
          /\ server' = [server EXCEPT !.status = nova[server.id].status,
                                      !.networks = nova[server.id].networks]
          /\ pc' = "create_sleep"
          /\ UNCHANGED outcome
       \/ /\ ~Present(server.id)
          /\ Leave("NotFound")
          /\ UNCHANGED server
       \/ /\ Leave("ClientException")
          /\ UNCHANGED server
    /\ UNCHANGED <<properties, resource_id, ipaddress, metadata, exc, nova, op,
                   errStatus, calls, prev, valres, updvars, apivars, att>>

\* eventlet.sleep(1) returns
handle_create_sleep ==
    /\ pc = "create_sleep"
    /\ pc' = "create_check"
    /\ UNCHANGED <<properties, resource_id, ipaddress, metadata, server, exc,
                   nova, op, outcome, errStatus, calls, prev, valres,
                   updvars, apivars, att>>

\* variant of handle_delete without the resource_id guard
handle_delete_begin_unguarded ==
    /\ Enter("delete")
    /\ server' = NoServer
    /\ exc' = None
    /\ calls' = NoCalls
    /\ pc' = "delete_lookup"
    /\ outcome' = "running"
    /\ UNCHANGED <<properties, resource_id, ipaddress, metadata, nova, valres,
                   updvars, apivars>>

\* handle_delete: if self.resource_id is None: return
handle_delete_begin ==
    /\ Enter("delete")
    /\ server' = NoServer
    /\ exc' = None
    /\ calls' = NoCalls
    /\ IF resource_id = NoId THEN Leave("ok")
                             ELSE pc' = "delete_lookup" /\ outcome' = "running"
    /\ UNCHANGED <<properties, resource_id, ipaddress, metadata, nova, valres,
                   updvars, apivars>>

\* server = self.nova().servers.get(self.resource_id)
handle_delete_lookup ==
    /\ pc = "delete_lookup"
    /\ \/ /\ Present(resource_id)
          /\ server' = [id |-> resource_id,
                        status |-> nova[resource_id].status,
                        networks |-> nova[resource_id].networks]
          /\ calls' = [calls EXCEPT !.lookup = resource_id, !.absent = FALSE]
          /\ pc' = "delete_call"
          /\ UNCHANGED outcome
       \/ /\ ~Present(resource_id)
          /\ calls' = [calls EXCEPT !.lookup = resource_id, !.absent = TRUE]
          /\ pc' = "delete_clear"
          /\ UNCHANGED <<server, outcome>>
       \/ /\ calls' = [calls EXCEPT !.lookup = resource_id]
          /\ Leave("ClientException")
          /\ UNCHANGED server
    /\ UNCHANGED <<properties, resource_id, ipaddress, metadata, exc, nova, op,
                   errStatus, prev, valres, updvars, apivars, att>>

\* server.delete()
handle_delete_call ==
    /\ pc = "delete_call"
    /\ calls' = [calls EXCEPT !.delete = @ + 1, !.target = server.id]
    /\ \/ /\ Present(server.id)
          /\ nova' = [nova EXCEPT ![server.id].status = "DELETING"]
          /\ pc' = "delete_get"
          /\ UNCHANGED outcome
       \/ /\ ~Present(server.id)
          /\ Leave("NotFound")
          /\ UNCHANGED nova
       \/ /\ Leave("ClientException")
          /\ UNCHANGED nova
    /\ UNCHANGED <<properties, resource_id, ipaddress, metadata, server, exc,
                   op, errStatus, prev, valres, updvars, apivars, att>>

\* variant of the delete loop that stops after the first poll that did not
\* raise
handle_delete_get_once ==
    /\ pc = "delete_get"
    /\ \/ /\ Present(server.id)
          /\ server' = [server EXCEPT !.status = nova[server.id].status,
                                      !.networks = nova[server.id].networks]
          /\ calls' = [calls EXCEPT !.absent = FALSE]
          /\ pc' = "delete_clear"
          /\ UNCHANGED outcome
       \/ /\ ~Present(server.id)
          /\ calls' = [calls EXCEPT !.absent = TRUE]
          /\ pc' = "delete_clear"
          /\ UNCHANGED <<server, outcome>>
       \/ /\ Leave("ClientException")
          /\ UNCHANGED <<server, calls>>
    /\ UNCHANGED <<properties, resource_id, ipaddress, metadata, exc, nova, op,
                   errStatus, prev, valres, updvars, apivars, att>>

\* server.get() inside the delete loop
handle_delete_get ==
    /\ pc = "delete_get"
    /\ \/ /\ Present(server.id)
          /\ server' = [server EXCEPT !.status = nova[server.id].status,
                                      !.networks = nova[server.id].networks]
          /\ calls' = [calls EXCEPT !.absent = FALSE]
          /\ pc' = "delete_sleep"
          /\ UNCHANGED outcome
       \/ /\ ~Present(server.id)
          /\ calls' = [calls EXCEPT !.absent = TRUE]
          /\ pc' = "delete_clear"
          /\ UNCHANGED <<server, outcome>>
       \/ /\ Leave("ClientException")
          /\ UNCHANGED <<server, calls>>
    /\ UNCHANGED <<properties, resource_id, ipaddress, metadata, exc, nova, op,
                   errStatus, prev, valres, updvars, apivars, att>>

\* eventlet.sleep(0.2) returns
handle_delete_sleep ==
    /\ pc = "delete_sleep"
    /\ pc' = "delete_get"
    /\ UNCHANGED <<properties, resource_id, ipaddress, metadata, server, exc,
                   nova, op, outcome, errStatus, calls, prev, valres,
                   updvars, apivars, att>>

\* self.resource_id = None
handle_delete_clear ==
    /\ pc = "delete_clear"
    /\ resource_id' = NoId
    /\ Leave("ok")
    /\ UNCHANGED <<properties, ipaddress, metadata, server, exc, nova, op,
                   errStatus, calls, prev, valres, updvars, apivars, att>>

\* the green thread is killed while it is suspended in eventlet.sleep
cancel ==
    /\ pc \in {"create_sleep", "delete_sleep"}
    /\ Leave("GreenletExit")
    /\ UNCHANGED <<properties, resource_id, ipaddress, metadata, server, exc,
                   nova, op, errStatus, calls, prev, valres, updvars, apivars, att>>

\* variant of validate that checks the key pair before it looks at the
\* result of the schema validation
validate_key_first ==
    /\ Enter("validate")
    /\ IF Missing(properties, "KeyName")
          THEN /\ valres' = properties_validate(properties)
               /\ calls' = NoCalls
               /\ Leave("ok")
          ELSE /\ calls' = [NoCalls EXCEPT !.keypairs = 1]
               /\ \/ /\ valres' = IF properties.KeyName \notin KeyPairs
                                      THEN "KeyNameError"
                                      ELSE properties_validate(properties)
                     /\ Leave("ok")
                  \/ /\ Leave("ClientException")
                     /\ UNCHANGED valres
    /\ UNCHANGED <<properties, resource_id, ipaddress, metadata, server, exc,
                   nova, updvars, apivars>>

\* validate(): the schema validation first, then the KeyName cross-check
validate ==
    /\ Enter("validate")
    /\ LET res == properties_validate(properties) IN
       IF res # None
          THEN /\ valres' = res
               /\ calls' = NoCalls
               /\ Leave("ok")
          ELSE IF Missing(properties, "KeyName")
          THEN /\ valres' = None
               /\ calls' = NoCalls
               /\ Leave("ok")
          ELSE /\ calls' = [NoCalls EXCEPT !.keypairs = 1]
               /\ \/ /\ valres' = IF properties.KeyName \in KeyPairs
                                      THEN None ELSE "KeyNameError"
                     /\ Leave("ok")
                  \/ /\ Leave("ClientException")
                     /\ UNCHANGED valres
    /\ UNCHANGED <<properties, resource_id, ipaddress, metadata, server, exc,
                   nova, updvars, apivars>>

\* --------------------------------------------------------------- FnGetAtt
\* the attribute names a template can ask for
AttributeKeys == {"AvailabilityZone", "PublicIp", "PrivateIp", "PublicDnsName",
                  "PrivateDnsName", "InstanceId", "Volumes"}

\* the names FnGetAtt resolves through _ipaddress()
IpAttributes == {"PublicIp", "PrivateIp", "PublicDnsName", "PrivateDnsName"}

\* self.ipaddress or '0.0.0.0'
or_default(ip) == IF ip = None THEN "0.0.0.0" ELSE ip

Resolved(key, value, queried, absent) ==
    [key |-> key, value |-> value, raised |-> None, queried |-> queried,
     absent |-> absent, cached |-> ipaddress]

Raised(key, what, queried) ==
    [key |-> key, value |-> None, raised |-> what, queried |-> queried,
     absent |-> FALSE, cached |-> ipaddress]

\* variant of _ipaddress() that asks nova every time
get_ipaddress_uncached(key) ==
    \/ /\ Present(resource_id)
       /\ set_ipaddress(nova[resource_id].networks)
       /\ att' = Resolved(key, or_default(ipaddress'), TRUE, FALSE)
    \/ /\ ~Present(resource_id)
       /\ att' = Resolved(key, or_default(ipaddress), TRUE, TRUE)
       /\ UNCHANGED ipaddress
    \/ /\ att' = Raised(key, "ClientException", TRUE)
       /\ UNCHANGED ipaddress

\* Instance._ipaddress(), called for the attribute `key`
get_ipaddress(key) ==
    IF ipaddress # None
       THEN /\ att' = Resolved(key, or_default(ipaddress), FALSE, FALSE)
            /\ UNCHANGED ipaddress
       ELSE \/ \* servers.get returns the server
               /\ Present(resource_id)
               /\ set_ipaddress(nova[resource_id].networks)
               /\ att' = Resolved(key, or_default(ipaddress'), TRUE, FALSE)
            \/ \* servers.get raises NotFound, which is logged
               /\ ~Present(resource_id)
               /\ att' = Resolved(key, or_default(ipaddress), TRUE, TRUE)
               /\ UNCHANGED ipaddress
            \/ \* servers.get raises something else
               /\ att' = Raised(key, "ClientException", TRUE)
               /\ UNCHANGED ipaddress

\* variant of FnGetAtt whose last branch resolves the address as well
FnGetAtt_any_key ==
    /\ pc = "idle"
    /\ \E key \in AttributeKeys :
         IF key = "AvailabilityZone"
            THEN /\ att' = Resolved(key, "nova", FALSE, FALSE)
                 /\ UNCHANGED ipaddress
            ELSE get_ipaddress(key)
    /\ UNCHANGED <<properties, resource_id, metadata, pc, server, exc, nova,
                   op, outcome, errStatus, calls, prev, valres, updvars,
                   apivars>>

\* FnGetAtt(key)
FnGetAtt ==
    /\ pc = "idle"
    /\ \E key \in AttributeKeys :
         IF key = "AvailabilityZone"
            THEN /\ att' = Resolved(key, "nova", FALSE, FALSE)
                 /\ UNCHANGED ipaddress
            ELSE IF key \in IpAttributes
            THEN get_ipaddress(key)
            ELSE /\ att' = Raised(key, "InvalidTemplateAttribute", FALSE)
                 /\ UNCHANGED ipaddress
    /\ UNCHANGED <<properties, resource_id, metadata, pc, server, exc, nova,
                   op, outcome, errStatus, calls, prev, valres, updvars,
                   apivars>>

\* --------------------------------------------------------- handle_update
\* the keys of a resource definition
TemplateKeys == {"Metadata", "Properties", "DeletionPolicy"}

\* template keys supported for handle_update
update_allowed_keys == {"Metadata"}

\* the values a key of a definition can have; None: the key is absent
TemplateValues == {None, "a", "b"}

Templates == [TemplateKeys -> TemplateValues]

\* json_snippet.get('Metadata', {}) when the key is absent
EmptyMap == "{}"

UPDATE_REPLACE == "UPDATE_REPLACE"
UPDATE_COMPLETE == "UPDATE_COMPLETE"

NoUpdate == [snippet |-> [k \in TemplateKeys |-> None], order |-> <<>>,
             raised |-> FALSE, old |-> None, result |-> None]

\* every order in which the keys of a dictionary can be visited
Orders(keys) ==
    {o \in [1..Cardinality(keys) -> keys] :
        \A i, j \in 1..Cardinality(keys) : i # j => o[i] # o[j]}

\* Resource.update_template_diff: the keys whose value differs between the
\* current definition and the new one
update_template_diff(current, json_snippet) ==
    {k \in TemplateKeys : current[k] # json_snippet[k]}

\* the loop of handle_update over tmpl_diff, from its i-th key on:
\* what self.metadata and the returned status are in the end
RECURSIVE update_loop(_, _, _, _, _)
update_loop(order, i, json_snippet, md, status) ==
    IF i > Len(order)
       THEN [metadata |-> md, status |-> status]
       ELSE IF order[i] = "Metadata"
       THEN update_loop(order, i + 1, json_snippet,
                        IF json_snippet["Metadata"] = None
                           THEN EmptyMap ELSE json_snippet["Metadata"],
                        UPDATE_COMPLETE)
       ELSE [metadata |-> md, status |-> UPDATE_REPLACE]

\* variant of the loop that skips the keys it cannot update
RECURSIVE update_loop_skip(_, _, _, _, _)
update_loop_skip(order, i, json_snippet, md, status) ==
    IF i > Len(order)
       THEN [metadata |-> md, status |-> status]
       ELSE IF order[i] = "Metadata"
       THEN update_loop_skip(order, i + 1, json_snippet,
                             IF json_snippet["Metadata"] = None
                                THEN EmptyMap ELSE json_snippet["Metadata"],
                             UPDATE_COMPLETE)
       ELSE update_loop_skip(order, i + 1, json_snippet, md, status)

\* variant of the body of handle_update that skips the keys it cannot update
update_status_skip(order, json_snippet, md) ==
    update_loop_skip(order, 1, json_snippet, md, UPDATE_REPLACE)

\* the body of handle_update once the diff is known
update_status(order, json_snippet, md) ==
    update_loop(order, 1, json_snippet, md, UPDATE_REPLACE)

\* handle_update(json_snippet)
handle_update ==
    /\ pc = "idle"
    /\ \E json_snippet \in Templates :
         LET tmpl_diff == update_template_diff(t, json_snippet) IN
         \/ \* update_template_diff raises NotImplementedError
            /\ ~(tmpl_diff \subseteq update_allowed_keys)
            /\ upd' = [snippet |-> json_snippet, order |-> <<>>,
                       raised |-> TRUE, old |-> metadata,
                       result |-> UPDATE_REPLACE]
            /\ UNCHANGED metadata
         \/ \* the diff is returned and its keys are visited in some order
            \E order \in Orders(tmpl_diff) :
              LET r == update_status(order, json_snippet, metadata) IN
              /\ metadata' = r.metadata
              /\ upd' = [snippet |-> json_snippet, order |-> order,
                         raised |-> FALSE, old |-> metadata,
                         result |-> r.status]
    /\ UNCHANGED <<properties, resource_id, ipaddress, pc, server, exc, nova,
                   op, outcome, errStatus, calls, prev, valres, att, t,
                   apivars>>

\* ------------------------------------------------------ InstantiationData
\* inline templates that are already a dict
Dicts == {"dict_A", "dict_B"}

\* template texts
Texts == {"json_A", "yaml_B", "garbage"}

\* the URLs a request can name
Urls == {"http://a", "http://garbage", "http://down"}

\* template_format.parse: JSON or YAML text to a dict, or ValueError
parse(text) ==
    CASE text = "json_A" -> "dict_A"
      [] text = "yaml_B" -> "dict_B"
      [] OTHER -> "ValueError"

\* urlfetch.get: the text behind a URL, or IOError
urlfetch_get(url) ==
    CASE url = "http://a" -> "json_A"
      [] url = "http://garbage" -> "garbage"
      [] OTHER -> "IOError"

Bodies == [stack_name : {None, "wordpress"},
           template : {None} \cup Dicts \cup Texts,
           template_url : {None} \cup Urls,
           parameters : {None, "params"}]

NoBody == [stack_name |-> None, template |-> None, template_url |-> None,
           parameters |-> None]

NoApi == [call |-> "none", status |-> None, value |-> None, fetched |-> None]

Ok(call, value, fetched) ==
    [call |-> call, status |-> "ok", value |-> value, fetched |-> fetched]

HTTPBadRequest(call, reason, fetched) ==
    [call |-> call, status |-> "HTTPBadRequest", value |-> reason,
     fetched |-> fetched]

\* InstantiationData.format_parse(data, data_type)
format_parse(template_data, fetched) ==
    IF parse(template_data) = "ValueError"
       THEN HTTPBadRequest("template", "Template not in valid format", fetched)
       ELSE Ok("template", parse(template_data), fetched)

\* variant of template() that fetches the URL whenever one is given
template_url_first(d) ==
    IF d.template_url # None
       THEN IF urlfetch_get(d.template_url) = "IOError"
               THEN HTTPBadRequest("template", "Could not retrieve template",
                                   d.template_url)
               ELSE format_parse(urlfetch_get(d.template_url), d.template_url)
       ELSE IF d.template # None
       THEN IF d.template \in Dicts
               THEN Ok("template", d.template, None)
               ELSE format_parse(d.template, None)
       ELSE HTTPBadRequest("template", "No template specified", None)

\* InstantiationData.template()
template(d) ==
    IF d.template # None
       THEN IF d.template \in Dicts
               THEN Ok("template", d.template, None)
               ELSE format_parse(d.template, None)
       ELSE IF d.template_url # None
       THEN IF urlfetch_get(d.template_url) = "IOError"
               THEN HTTPBadRequest("template", "Could not retrieve template",
                                   d.template_url)
               ELSE format_parse(urlfetch_get(d.template_url), d.template_url)
       ELSE HTTPBadRequest("template", "No template specified", None)

\* InstantiationData.stack_name()
stack_name(d) ==
    IF d.stack_name = None
       THEN HTTPBadRequest("stack_name", "No stack name specified", None)
       ELSE Ok("stack_name", d.stack_name, None)

\* InstantiationData.user_params()
user_params(d) ==
    Ok("user_params", IF d.parameters = None THEN EmptyMap ELSE d.parameters,
       None)

lifecycle == <<properties, resource_id, ipaddress, metadata, pc, server, exc,
               nova, op, outcome, errStatus, calls, prev, valres, att>>

call_template ==
    /\ api' = template(data)
    /\ UNCHANGED <<lifecycle, updvars, data, fmt>>

call_stack_name ==
    /\ api' = stack_name(data)
    /\ UNCHANGED <<lifecycle, updvars, data, fmt>>

call_user_params ==
    /\ api' = user_params(data)
    /\ UNCHANGED <<lifecycle, updvars, data, fmt>>

\* -------------------------------------------------------- format_resource
\* the keys of the engine's description of a resource
RES_ID == "resource_identity"
RES_STACK_NAME == "stack_name"
RES_STACK_ID == "stack_identity"
RES_METADATA == "metadata"
RES_NAME == "logical_resource_id"
RES_STATUS == "resource_status"

ResKeys == {RES_ID, RES_STACK_NAME, RES_STACK_ID, RES_METADATA, RES_NAME,
            RES_STATUS}

\* the names a caller can list in `keys`
FilterKeys == ResKeys \cup {"links"}

\* the identities of the resources described
Identities ==
    [tenant : {"t1"}, stack_name : {"wordpress"}, stack_id : {"id-1"},
     resource_name : {"WebServer", "Database"}]

\* ResourceIdentifier.stack(): the identity of the owning stack
stack_of(identity) == [identity EXCEPT !.resource_name = None]

\* util.make_link(req, identity, relationship)
make_link(identity, rel) == [href |-> identity, rel |-> rel]

\* the value the engine gives for a key other than the identity
FieldValue(k) ==
    CASE k = RES_STACK_NAME -> [text |-> "wordpress"]
      [] k = RES_STACK_ID -> [text |-> "t1/stacks/wordpress/id-1"]
      [] k = RES_METADATA -> [text |-> "{'config': 1}"]
      [] k = RES_NAME -> [text |-> "WebServer"]
      [] OTHER -> [text |-> "CREATE_COMPLETE"]

\* the description of a resource that has the keys `present`
Description(present, identity) ==
    [k \in present |-> IF k = RES_ID THEN identity ELSE FieldValue(k)]

\* include_key = lambda k: k in keys if keys else True
include_key(k, keys) == IF keys # {} THEN k \in keys ELSE TRUE

\* variant of transform that passes the metadata through
transform_with_metadata(key, value, keys) ==
    IF ~include_key(key, keys)
       THEN {}
       ELSE IF key = RES_ID
       THEN {<<"links", <<make_link(value, "self"),
                          make_link(stack_of(value), "stack")>> >>}
       ELSE IF key = RES_STACK_NAME \/ key = RES_STACK_ID
       THEN {}
       ELSE {<<key, value>>}

\* transform(key, value): the (key, value) pairs it yields
transform(key, value, keys) ==
    IF ~include_key(key, keys)
       THEN {}
       ELSE IF key = RES_ID
       THEN {<<"links", <<make_link(value, "self"),
                          make_link(stack_of(value), "stack")>> >>}
       ELSE IF key = RES_STACK_NAME \/ key = RES_STACK_ID
       THEN {}
       ELSE IF key = RES_METADATA
       THEN {}
       ELSE {<<key, value>>}

\* dict(pairs)
dict(pairs) ==
    [k \in {p[1] : p \in pairs} |-> (CHOOSE p \in pairs : p[1] = k)[2]]

\* format_resource(req, stack, keys)
format_resource(stack, keys) ==
    dict(UNION {transform(k, stack[k], keys) : k \in DOMAIN stack})

NoFmt == [called |-> FALSE, stack |-> <<>>, keys |-> {}, out |-> <<>>]

\* a request: the description the engine gave and the keys asked for
Request(stack, keys) ==
    [called |-> FALSE, stack |-> stack, keys |-> keys, out |-> <<>>]

call_format_resource ==
    /\ ~fmt.called
    /\ fmt' = [fmt EXCEPT !.called = TRUE,
                          !.out = format_resource(fmt.stack, fmt.keys)]
    /\ UNCHANGED <<lifecycle, updvars, data, api>>

\* ------------------------------------------------------- specification
Init ==
    /\ properties \in [KeyName : KeyNames, ImageId : ImageIds,
                       InstanceType : InstanceTypes]
    /\ resource_id = NoId
    /\ ipaddress = None
    /\ metadata = EmptyMap
    /\ pc = "idle"
    /\ server = NoServer
    /\ exc = None
    /\ nova = [i \in ServerIds |-> [status |-> "NONE", networks |-> <<>>]]
    /\ op = "none"
    /\ outcome = "none"
    /\ errStatus = None
    /\ calls = NoCalls
    /\ prev = NoPrev
    /\ valres = "unset"
    /\ att = NoAtt
    /\ t = [k \in TemplateKeys |-> None]
    /\ upd = NoUpdate
    /\ data = NoBody
    /\ api = NoApi
    /\ fmt = NoFmt

Next ==
    \/ handle_create_precheck
    \/ handle_create_call
    \/ handle_create_finally
    \/ handle_create_check
    \/ handle_create_get
    \/ handle_create_sleep
    \/ handle_delete_begin
    \/ handle_delete_lookup
    \/ handle_delete_call
    \/ handle_delete_get
    \/ handle_delete_sleep
    \/ handle_delete_clear
    \/ cancel
    \/ validate
    \/ FnGetAtt
    \/ \E i \in ServerIds : nova_build(i)
    \/ \E i \in ServerIds : nova_remove(i)

Spec == Init /\ [][Next]_vars

\* handle_update applied to a constructed resource, for every current
\* definition, every new definition and every cached metadata
InitUpdate ==
    /\ properties = [KeyName |-> "heat_key", ImageId |-> "F17-x86_64",
                     InstanceType |-> "m1.small"]
    /\ resource_id = NoId
    /\ ipaddress = None
    /\ metadata \in {EmptyMap, "a", "b"}
    /\ pc = "idle"
    /\ server = NoServer
    /\ exc = None
    /\ nova = [i \in ServerIds |-> [status |-> "NONE", networks |-> <<>>]]
    /\ op = "none"
    /\ outcome = "none"
    /\ errStatus = None
    /\ calls = NoCalls
    /\ prev = NoPrev
    /\ valres = "unset"
    /\ att = NoAtt
    /\ t \in Templates
    /\ upd = NoUpdate
    /\ data = NoBody
    /\ api = NoApi
    /\ fmt = NoFmt

NextUpdate == handle_update

SpecUpdate == InitUpdate /\ [][NextUpdate]_vars

\* the InstantiationData accessors applied to every request body
InitApi ==
    /\ properties = [KeyName |-> "heat_key", ImageId |-> "F17-x86_64",
                     InstanceType |-> "m1.small"]
    /\ resource_id = NoId
    /\ ipaddress = None
    /\ metadata = EmptyMap
    /\ pc = "idle"
    /\ server = NoServer
    /\ exc = None
    /\ nova = [i \in ServerIds |-> [status |-> "NONE", networks |-> <<>>]]
    /\ op = "none"
    /\ outcome = "none"
    /\ errStatus = None
    /\ calls = NoCalls
    /\ prev = NoPrev
    /\ valres = "unset"
    /\ att = NoAtt
    /\ t = [k \in TemplateKeys |-> None]
    /\ upd = NoUpdate
    /\ data \in Bodies
    /\ api = NoApi
    /\ fmt = NoFmt

NextApi ==
    \/ call_template
    \/ call_stack_name
    \/ call_user_params

SpecApi == InitApi /\ [][NextApi]_vars

\* format_resource applied to every description of a resource and every
\* list of keys
InitRes ==
    /\ properties = [KeyName |-> "heat_key", ImageId |-> "F17-x86_64",
                     InstanceType |-> "m1.small"]
    /\ resource_id = NoId
    /\ ipaddress = None
    /\ metadata = EmptyMap
    /\ pc = "idle"
    /\ server = NoServer
    /\ exc = None
    /\ nova = [i \in ServerIds |-> [status |-> "NONE", networks |-> <<>>]]
    /\ op = "none"
    /\ outcome = "none"
    /\ errStatus = None
    /\ calls = NoCalls
    /\ prev = NoPrev
    /\ valres = "unset"
    /\ att = NoAtt
    /\ t = [k \in TemplateKeys |-> None]
    /\ upd = NoUpdate
    /\ data = NoBody
    /\ api = NoApi
    /\ \E present \in SUBSET ResKeys, identity \in Identities,
          keys \in SUBSET FilterKeys :
         fmt = Request(Description(present, identity), keys)

NextRes == call_format_resource

SpecRes == InitRes /\ [][NextRes]_vars

\* the green thread running handle_create is scheduled again after every
\* call and sleep, and nova does not leave a server in BUILD for ever
LiveSpec ==
    /\ Spec
    /\ WF_vars(handle_create_call)
    /\ WF_vars(handle_create_finally)
    /\ WF_vars(handle_create_check)
    /\ WF_vars(handle_create_get)
    /\ WF_vars(handle_create_sleep)
    /\ \A i \in ServerIds : WF_vars(nova_build(i))

\* ---------------------------------------------------------------- claims
\* the ways handle_create fails once the provider has returned a server
CreateFailures == {"Error", "ClientException", "NotFound"}

Finished(name) == op = name /\ pc = "idle"

\* C1: once servers.create has returned a server and the finally clause
\* has run, resource_id is that server's id: at every poll, at every sleep
\* and however handle_create ends (return, error, cancellation)
C1_IdStoredBeforePolling ==
    (op = "create" /\ server # NoServer /\ pc # "create_finally")
        => resource_id = server.id

\* handle_create was cancelled in a sleep and the id is stored
C1_Witness ==
    /\ Finished("create")
    /\ outcome = "GreenletExit"
    /\ server.id \in ServerIds
    /\ resource_id = server.id

\* C2 as stated: after a handle_create that failed holding a server, a
\* handle_delete that returns has requested the deletion of that server and
\* left resource_id unset
C2_DeleteAlwaysRequested ==
    ( /\ Finished("delete")
      /\ outcome = "ok"
      /\ prev.op = "create"
      /\ prev.outcome \in CreateFailures
      /\ prev.sid # NoId )
        => (calls.delete = 1 /\ calls.target = prev.sid /\ resource_id = NoId)

\* C2 amended: a failed handle_create keeps the server's id; the following
\* handle_delete looks that server up, requests the deletion of no other
\* server, requests it whenever the look-up found the server, and when it
\* returns resource_id is unset and either the deletion was requested or
\* the provider had already reported the server absent
C2_FailedCreateReclaimable ==
    /\ ( /\ Finished("create")
         /\ outcome \in CreateFailures
         /\ server # NoServer )
           => resource_id = server.id
    /\ ( /\ op = "delete"
         /\ prev.op = "create"
         /\ prev.outcome \in CreateFailures
         /\ prev.sid # NoId )
           => /\ prev.rid = prev.sid
              /\ calls.lookup \in {NoId, prev.sid}
              /\ calls.target \in {NoId, prev.sid}
              /\ pc \in {"delete_get", "delete_sleep"}
                    => (calls.delete = 1 /\ calls.target = prev.sid)
              /\ (pc = "idle" /\ outcome = "ok")
                    => /\ resource_id = NoId
                       /\ calls.lookup = prev.sid
                       /\ \/ calls.delete = 1 /\ calls.target = prev.sid
                          \/ calls.delete = 0 /\ calls.absent

\* the server failed to build, and the following handle_delete requested
\* its deletion and cleared the id
C2_Witness ==
    /\ Finished("delete")
    /\ outcome = "ok"
    /\ prev.op = "create"
    /\ prev.outcome = "Error"
    /\ prev.sid \in ServerIds
    /\ calls.target = prev.sid
    /\ resource_id = NoId

\* C4: handle_delete entered with resource_id unset returns at once: it
\* succeeds, has made no provider call, and resource_id is still unset
C4_DeleteIdempotent ==
    (op = "delete" /\ prev.rid = NoId)
        => /\ pc = "idle"
           /\ outcome = "ok"
           /\ resource_id = NoId
           /\ calls = NoCalls
           /\ server = NoServer

\* a second handle_delete after one that found the server and cleared the id
C4_Witness ==
    /\ Finished("delete")
    /\ prev.rid = NoId
    /\ prev.op = "delete"
    /\ prev.outcome = "ok"
    /\ prev.sid \in ServerIds
    /\ outcome = "ok"

\* C5: handle_delete clears resource_id only when the provider's last
\* answer was NotFound, and returns only then: at the first look-up, with no
\* deletion requested, or at a poll after the deletion request
C5_ClearedOnlyWhenAbsent ==
    /\ []( ( /\ Finished("delete")
             /\ outcome = "ok"
             /\ prev.rid # NoId )
               => /\ resource_id = NoId
                  /\ calls.lookup = prev.rid
                  /\ calls.absent
                  /\ ~Present(prev.rid)
                  /\ calls.delete \in {0, 1}
                  /\ calls.delete = 1 => calls.target = prev.rid )
    /\ []( (pc \in {"delete_call", "delete_sleep"}) => ~calls.absent )
    /\ [][ (resource_id # NoId /\ resource_id' = NoId)
              => /\ calls.absent
                 /\ ~Present(resource_id)
                 /\ op = "delete"
                 /\ outcome' = "ok" ]_vars

\* the deletion was requested and a later poll reported the server absent
C5_Witness ==
    /\ Finished("delete")
    /\ outcome = "ok"
    /\ prev.rid \in ServerIds
    /\ calls.delete = 1
    /\ resource_id = NoId

C9_NoRetry ==
    /\ calls.create <= 1
    /\ calls.delete <= 1
    /\ pc = "create_call" => calls.create = 0
    /\ pc = "delete_call" => calls.delete = 0
    /\ (op = "create" /\ exc # None) => pc \in {"create_finally", "idle"}
    /\ outcome \notin {"running", "none"} => pc = "idle"

\* servers.create raised and handle_create ended without a second call
C9_Witness ==
    /\ Finished("create")
    /\ outcome = "ClientException"
    /\ calls.create = 1
    /\ server = NoServer

\* C10: validate returns the schema error, if there is one, without asking
\* nova for the key pairs; otherwise it returns an error iff KeyName is not
\* a registered key pair; it never creates, updates or deletes anything
C10_ValidateFirstErrorWins ==
    /\ []( (Finished("validate") /\ outcome = "ok")
              => IF properties_validate(properties) # None
                    THEN /\ valres = properties_validate(properties)
                         /\ calls.keypairs = 0
                    ELSE /\ valres \in {None, "KeyNameError"}
                         /\ valres = "KeyNameError"
                               <=> properties.KeyName \notin KeyPairs )
    /\ []( op = "validate"
              => (pc = "idle" /\ calls.create = 0 /\ calls.delete = 0
                    /\ calls.lookup = NoId) )
    /\ [][ (op' = "validate" /\ att' = NoAtt)
              => /\ resource_id' = resource_id
                 /\ metadata' = metadata
                 /\ ipaddress' = ipaddress
                 /\ <<op, outcome, calls, prev, valres>>'
                       # <<op, outcome, calls, prev, valres>> => nova' = nova
          ]_vars

\* the schema error was returned although the key pair is not registered
C10_Witness ==
    /\ Finished("validate")
    /\ outcome = "ok"
    /\ valres = "SchemaError"
    /\ properties.KeyName = "lost_key"
    /\ calls.keypairs = 0

\* the diff of the last handle_update
LastDiff == update_template_diff(t, upd.snippet)

Updated == upd.result # None

\* C6: handle_update on an empty diff reports neither an in-place update
\* nor a replacement
C6_EmptyDiffIsNoOp ==
    (Updated /\ ~upd.raised /\ LastDiff = {})
        => upd.result \notin {UPDATE_COMPLETE, UPDATE_REPLACE}

\* C7: on a non-empty diff handle_update returns UPDATE_COMPLETE, with the
\* metadata set to the new definition's Metadata, exactly when Metadata is
\* the only changed key; it returns UPDATE_REPLACE when a changed key is not
\* update-allowed or the diff raised, in whatever order the keys are visited
C7_UpdateClassification ==
    (Updated /\ LastDiff # {})
        => /\ upd.result \in {UPDATE_COMPLETE, UPDATE_REPLACE}
           /\ upd.result = UPDATE_COMPLETE <=> LastDiff = {"Metadata"}
           /\ upd.result = UPDATE_COMPLETE
                => metadata = IF upd.snippet["Metadata"] = None
                                 THEN EmptyMap ELSE upd.snippet["Metadata"]
           /\ (upd.raised \/ ~(LastDiff \subseteq update_allowed_keys))
                => upd.result = UPDATE_REPLACE

\* Metadata and Properties both changed, Metadata was visited first, and the
\* update is still a replacement
C7_Witness ==
    /\ Updated
    /\ ~upd.raised
    /\ upd.order = <<"Metadata", "Properties">>
    /\ upd.result = UPDATE_REPLACE

BothGiven == data.template # None /\ data.template_url # None

NeitherGiven == data.template = None /\ data.template_url = None

\* C3 as stated: template() accepts a body only when exactly one of
\* 'template' and 'template_url' is present, and rejects a body with both
\* or with neither
C3_ExactlyOneAccepted ==
    api.call = "template"
        => /\ api.status = "ok" => (~BothGiven /\ ~NeitherGiven)
           /\ (BothGiven \/ NeitherGiven) => api.status = "HTTPBadRequest"

\* C3 amended: a body with neither key is rejected; a body is accepted only
\* if it has at least one of them; when 'template' is present it is used
\* and 'template_url' is ignored, never fetched: the body is treated as the
\* same body without 'template_url'
C3_TemplateTakesPrecedence ==
    api.call = "template"
        => /\ NeitherGiven
                => api = HTTPBadRequest("template", "No template specified",
                                        None)
           /\ api.status = "ok" => ~NeitherGiven
           /\ data.template # None
                => /\ api.fetched = None
                   /\ api = template([data EXCEPT !.template_url = None])
                   /\ data.template \in Dicts
                        => (api.status = "ok" /\ api.value = data.template)
           /\ (data.template = None /\ data.template_url # None)
                => api.fetched = data.template_url

\* a body with both keys was accepted on its inline template
C3_Witness ==
    /\ api.call = "template"
    /\ BothGiven
    /\ api.status = "ok"
    /\ api.value = data.template
    /\ api.fetched = None

\* C14: whenever handle_update returns UPDATE_REPLACE, for any diff and any
\* order of its keys, the metadata is what it was before the call
C14_ReplaceLeavesMetadata ==
    (Updated /\ upd.result = UPDATE_REPLACE) => metadata = upd.old

\* a pre-check of handle_create cannot succeed with these properties
PrecheckFails ==
    \/ properties.KeyName \notin KeyPairs
    \/ properties.ImageId \notin Images
    \/ properties.InstanceType \notin Flavors

\* C15: with a KeyName that is no registered key pair, an ImageId that names
\* no image or an InstanceType that names no flavor, handle_create ends with
\* an error, never issues servers.create, and leaves resource_id unset
C15_FailedPrecheckProvisionsNothing ==
    PrecheckFails
        => /\ resource_id = NoId
           /\ Allocated = {}
           /\ server = NoServer
           /\ op = "create" => calls.create = 0
           /\ Finished("create") => outcome \notin {"ok", "running", "none"}

\* the flavor is unknown: handle_create got as far as the servers.create
\* statement and ended there without issuing the call
C15_Witness ==
    /\ Finished("create")
    /\ properties.KeyName \in KeyPairs
    /\ properties.ImageId \in Images
    /\ properties.InstanceType = "no_flavor"
    /\ outcome = "UnboundLocalError"
    /\ calls.create = 0
    /\ resource_id = NoId

\* C11: for every name other than AvailabilityZone, PublicIp, PrivateIp,
\* PublicDnsName and PrivateDnsName FnGetAtt raises
\* InvalidTemplateAttribute, asks nova nothing and changes nothing of the
\* resource; for those five names it does not raise it
C11_UnknownAttributeRaises ==
    /\ []( att.key # None
             => IF att.key \in {"AvailabilityZone", "PublicIp", "PrivateIp",
                                "PublicDnsName", "PrivateDnsName"}
                   THEN att.raised # "InvalidTemplateAttribute"
                   ELSE /\ att.raised = "InvalidTemplateAttribute"
                        /\ att.value = None
                        /\ ~att.queried )
    /\ [][ (att' # att /\ att'.raised = "InvalidTemplateAttribute")
             => UNCHANGED <<properties, resource_id, ipaddress, metadata, pc,
                            server, exc, nova, op, outcome, errStatus, calls,
                            prev, valres, t, upd>> ]_vars

\* an attribute the Instance does not have was asked of a created resource
C11_Witness ==
    /\ att.key = "InstanceId"
    /\ att.raised = "InvalidTemplateAttribute"
    /\ resource_id \in ServerIds
    /\ Finished("create")
    /\ outcome = "ok"

Withheld == {RES_ID, RES_STACK_NAME, RES_STACK_ID, RES_METADATA}

Included(k) == fmt.keys = {} \/ k \in fmt.keys

\* C13: format_resource gives, in place of the identity entry, a 'links'
\* list of exactly two links, the resource and its stack (the identity
\* without the resource name); it emits no stack-name, stack-id or metadata
\* entry and passes every other included key on unchanged; with a non-empty
\* list of keys only the keys listed are looked at
C13_ResourceView ==
    fmt.called
        => /\ "links" \in DOMAIN fmt.out
                <=> (RES_ID \in DOMAIN fmt.stack /\ Included(RES_ID))
           /\ "links" \in DOMAIN fmt.out
                => /\ Len(fmt.out["links"]) = 2
                   /\ fmt.out["links"][1] =
                        [href |-> fmt.stack[RES_ID], rel |-> "self"]
                   /\ fmt.out["links"][2] =
                        [href |-> [fmt.stack[RES_ID]
                                      EXCEPT !.resource_name = None],
                         rel |-> "stack"]
           /\ DOMAIN fmt.out \cap Withheld = {}
           /\ DOMAIN fmt.out \subseteq
                (DOMAIN fmt.stack \ Withheld) \cup {"links"}
           /\ \A k \in DOMAIN fmt.stack \ Withheld :
                /\ k \in DOMAIN fmt.out <=> Included(k)
                /\ k \in DOMAIN fmt.out => fmt.out[k] = fmt.stack[k]

\* identity, metadata and status were asked for by name: the view has the
\* links and the status and no metadata
C13_Witness ==
    /\ fmt.called
    /\ fmt.keys = {RES_ID, RES_METADATA, RES_STATUS}
    /\ DOMAIN fmt.stack = ResKeys
    /\ DOMAIN fmt.out = {"links", RES_STATUS}
    /\ fmt.out["links"][2].href.resource_name = None
====
